---- MODULE Spec2Model ----
(***************************************************************************)
(* Flask-Bauto: a state-machine model of the synthesis engine.             *)
(*                                                                         *)
(*   - the naming utilities AutoBlueprint.camel_to_snake / snake_to_camel  *)
(*     (specification SpecNames);                                          *)
(*   - the value bundle BauType: __post_init__ and __call__                *)
(*     (specification SpecBau);                                            *)
(*   - class definition and AutoBlueprint.__init__: defined_models,        *)
(*     _set_bauprints, register_models, Bauhaus.create_db_column           *)
(*     (specification Spec);                                               *)
(*   - the request handlers create, list, read, update and delete of the   *)
(*     constructed blueprints (specification SpecRun).                     *)
(*                                                                         *)
(* Python strings that the code takes apart (model names, field names,     *)
(* namespace keys) are sequences of one-character strings.                 *)
(***************************************************************************)
EXTENDS Integers, Sequences, FiniteSets, TLC

VARIABLES
    \* --- naming utilities ---
    nm,         \* the declared name under conversion
    snake,      \* camel_to_snake(nm), once computed
    camel,      \* snake_to_camel(snake), once computed
    npc,        \* position: "start" | "snaked" | "cameled"
    \* --- value bundle (BauType instance) ---
    bt,         \* the instance: its class, metadata and the three item slots
    calls,      \* number of invocations made on the instance so far
    last,       \* the latest invocation: the slot supplied, the item, the time
    raised,     \* exception raised by the latest invocation ("" when none)
    disk,       \* files written by File.py2db: a sequence of [path, bytes]
    clock,      \* datetime.datetime.now(), in whole seconds
    \* --- class definition and AutoBlueprint.__init__ ---
    interactive,\* the classes are defined where inspect.getsource fails
    classes,    \* AutoBlueprint.__subclasses__(): the groups defined so far
    bp,         \* per group name: its AutoBlueprint instance, if constructed
    bauprint,   \* per model class: its __bauprint__, once set
    tables,     \* mapper_registry.metadata: the tables, in creation order
    dmattrs,    \* per model class: _data_raw_attributes, _data_attributes, _data_headers
    \* --- the application at run time ---
    app,        \* per group name: routing state of its instance (add_url_rule)
    session,    \* the stored records: a sequence of [model, id, image]
    response    \* what the latest request handler returned

namesVars == <<nm, snake, camel, npc>>
bauVars == <<bt, calls, last, raised, disk, clock>>
runVars == <<app, session, response>>
startupVars == <<interactive, classes, bp, bauprint, tables, dmattrs>>
vars == <<namesVars, bauVars, startupVars, runVars>>

(***************************************************************************)
(* Characters and strings                                                  *)
(***************************************************************************)
UpperSeq == <<"A","B","C","D","E","F","G","H","I","J","K","L","M",
              "N","O","P","Q","R","S","T","U","V","W","X","Y","Z">>
LowerSeq == <<"a","b","c","d","e","f","g","h","i","j","k","l","m",
              "n","o","p","q","r","s","t","u","v","w","x","y","z">>
DigitSeq == <<"0","1","2","3","4","5","6","7","8","9">>

Range(s) == {s[i] : i \in DOMAIN s}

UpperChars == Range(UpperSeq)
LowerChars == Range(LowerSeq)
IsUpper(c) == c \in UpperChars
IsLower(c) == c \in LowerChars

\* str.lower() / str.upper() on one character
LowerChar(c) ==
    IF IsUpper(c) THEN LowerSeq[CHOOSE i \in DOMAIN UpperSeq : UpperSeq[i] = c] ELSE c
UpperChar(c) ==
    IF IsLower(c) THEN UpperSeq[CHOOSE i \in DOMAIN LowerSeq : LowerSeq[i] = c] ELSE c

\* A list or str built item by item
list(f) == f \o <<>>

str_lower(s) == list([i \in DOMAIN s |-> LowerChar(s[i])])

RECURSIVE Concat(_)
\* ''.join(parts)
Concat(parts) ==
    IF parts = <<>> THEN <<>> ELSE Head(parts) \o Concat(Tail(parts))

(***************************************************************************)
(* AutoBlueprint.camel_to_snake: the regular expression matches the empty  *)
(* string between a lowercase and an uppercase letter, and between an      *)
(* uppercase letter and an uppercase letter that a lowercase one follows;  *)
(* every match is replaced by "_" and the result is lowercased.            *)
(***************************************************************************)
SnakeBreakAfter(s, p) ==
    /\ p \in 1..(Len(s) - 1)
    /\ \/ IsLower(s[p]) /\ IsUpper(s[p + 1])
       \/ /\ IsUpper(s[p]) /\ IsUpper(s[p + 1])
          /\ p + 2 <= Len(s)
          /\ IsLower(s[p + 2])

camel_to_snake(s) ==
    str_lower(Concat(list([p \in DOMAIN s |->
        IF SnakeBreakAfter(s, p) THEN <<s[p], "_">> ELSE <<s[p]>>])))

(***************************************************************************)
(* AutoBlueprint.snake_to_camel (lowerCamelCase = False): split on "_",    *)
(* str.capitalize() each word (first character upper, the rest lower) and  *)
(* join: the underscores go, a character that starts a word is uppercased  *)
(* and every other character is lowercased.                                *)
(***************************************************************************)
snake_to_camel(s) ==
    Concat(list([p \in DOMAIN s |->
        IF s[p] = "_" THEN <<>>
        ELSE IF p = 1 \/ s[p - 1] = "_" THEN <<UpperChar(s[p])>>
        ELSE <<LowerChar(s[p])>>]))

\* str.endswith / str.startswith / slicing
endswith(s, suf) ==
    /\ Len(s) >= Len(suf)
    /\ SubSeq(s, Len(s) - Len(suf) + 1, Len(s)) = suf
startswith(s, pre) ==
    /\ Len(s) >= Len(pre)
    /\ SubSeq(s, 1, Len(pre)) = pre
\* s[:-3]
DropLast3(s) == SubSeq(s, 1, Len(s) - 3)
ID_SUFFIX == <<"_", "i", "d">>

(***************************************************************************)
(* The value bundle: types.py, class BauType and its subclasses.           *)
(*                                                                         *)
(* Items.  None is a value of its own.  An item handed in by a caller is   *)
(* an atom; what a user-defined transform returns is the term [f, x]: the  *)
(* transform's name and the item it read (nothing is assumed of a          *)
(* transform but that it is a function of the item it reads).  File's own  *)
(* transforms work on an upload and on the dict File.ux2py builds.         *)
(***************************************************************************)
None == [none |-> TRUE]
Atom(a) == [item |-> a]
Term(f, x) == [f |-> f, x |-> x]

TRANSFORMS == {"py2db", "py2ux", "db2py", "ux2py"}

\* A descriptor class: its name, and the transforms it defines; the others
\* keep the class attribute False (types.py lines 66-70).
BauClass(name, defines) == [name |-> name, defines |-> defines]
String == BauClass("String", {})
File == BauClass("File", {"ux2py", "py2db"})
\* user-defined subclasses of BauType, one for each set of transforms
CustomClasses == {BauClass("Custom", D) : D \in SUBSET TRANSFORMS}
BauClasses == {String, File} \cup CustomClasses

\* werkzeug.utils.secure_filename on the file names used here: a blank
\* becomes "_", directory parts are dropped
secure_filename(n) ==
    CASE n = "a b.png" -> "a_b.png"
      [] n = "../a_b.png" -> "a_b.png"
      [] OTHER -> n

b64encode(bytes) == [b64 |-> bytes]
b64decode(text) == text.b64

\* File.ux2py, lines 137-149, on the upload u
File_ux2py(u) ==
    [filename |-> u.filename,
     mimetype |-> u.mimetype,
     content |-> b64encode(u.stream)]

\* File.py2db, lines 151-174, on the instance b at time now with the files
\* written so far: the instance and the files afterwards, and the item
\* returned.  open(filepath, 'wb') replaces a file of the same path.
File_writes(b) ==
    /\ b.storage_location # None
    /\ "content" \in DOMAIN b.py_item

File_filepath(b, now) ==
    [dir |-> b.storage_location,
     stamp |-> now,
     name |-> secure_filename(b.py_item.filename)]

\* File.py2db that reads the content without removing it from the item
File_py2db_KeepContent(b, now, files) ==
    IF File_writes(b)
    THEN LET filepath == File_filepath(b, now)
             written == [path |-> filepath, bytes |-> b64decode(b.py_item.content)]
             item == b.py_item @@ ("content_location" :> filepath)
         IN [b |-> [b EXCEPT !.py_item = item],
             files |-> SelectSeq(files, LAMBDA f : f.path # filepath) \o <<written>>,
             ret |-> item]
    ELSE [b |-> b, files |-> files, ret |-> b.py_item]

File_py2db(b, now, files) ==
    IF File_writes(b)
    THEN LET filepath == File_filepath(b, now)
             written == [path |-> filepath, bytes |-> b64decode(b.py_item.content)]
             popped == [k \in DOMAIN b.py_item \ {"content"} |-> b.py_item[k]]
             item == popped @@ ("content_location" :> filepath)
         IN [b |-> [b EXCEPT !.py_item = item],
             files |-> SelectSeq(files, LAMBDA f : f.path # filepath) \o <<written>>,
             ret |-> item]
    ELSE [b |-> b, files |-> files, ret |-> b.py_item]

\* The slot a transform reads and the slot __post_init__ assigns it to
ReadsSlot(f) == IF f = "db2py" THEN "db_item" ELSE IF f = "ux2py" THEN "ux_item" ELSE "py_item"

\* self.<f>() where the class defines f: st is [b, files, raised]
CallTransform(st, f, slot, now) ==
    IF st.b.cls = File /\ f = "py2db"
    THEN LET r == File_py2db(st.b, now, st.files)
         IN [st EXCEPT !.b = [r.b EXCEPT ![slot] = r.ret], !.files = r.files]
    ELSE IF st.b.cls = File /\ f = "ux2py"
    THEN [st EXCEPT !.b[slot] = File_ux2py(st.b.ux_item)]
    ELSE [st EXCEPT !.b[slot] = Term(f, st.b[ReadsSlot(f)])]

\* "if self.<slot> is None: self.<slot> = self.<f>()": calling the default
\* False raises TypeError ('bool' object is not callable), and nothing
\* after the raise is executed
Fill(st, f, slot, now) ==
    IF st.raised # "" THEN st
    ELSE IF st.b[slot] # None THEN st
    ELSE IF f \notin st.b.cls.defines THEN [st EXCEPT !.raised = "TypeError"]
    ELSE CallTransform(st, f, slot, now)

\* __post_init__ with the external item of a stored value made from the
\* stored item itself
PostInit_Db2UxFromDb(b, now, files) ==
    LET st == [b |-> b, files |-> files, raised |-> ""]
    IN IF b.py_item # None
       THEN Fill(Fill(st, "py2db", "db_item", now), "py2ux", "ux_item", now)
       ELSE IF b.db_item # None
       THEN [Fill(st, "db2py", "py_item", now)
                EXCEPT !.b.ux_item = Term("py2ux", b.db_item)]
       ELSE IF b.ux_item # None
       THEN Fill(Fill(st, "ux2py", "py_item", now), "py2db", "db_item", now)
       ELSE st

\* BauType.__post_init__, lines 30-45
__post_init__(b, now, files) ==
    LET st == [b |-> b, files |-> files, raised |-> ""]
    IN IF b.py_item # None
       THEN Fill(Fill(st, "py2db", "db_item", now), "py2ux", "ux_item", now)
       ELSE IF b.db_item # None
       THEN Fill(Fill(st, "db2py", "py_item", now), "py2ux", "ux_item", now)
       ELSE IF b.ux_item # None
       THEN Fill(Fill(st, "ux2py", "py_item", now), "py2db", "db_item", now)
       ELSE st

\* The keyword arguments of one invocation: at most one item is supplied
SLOTS == {"py_item", "db_item", "ux_item"}
Args(slot, item) == [s \in SLOTS |-> IF s = slot THEN item ELSE None]

\* BauType.__call__, lines 47-58: a supplied item replaces its slot, the
\* other slots keep what they hold, and __post_init__ runs again
__call__(b, args, now, files) ==
    __post_init__(
        [b EXCEPT !.py_item = IF args.py_item # None THEN args.py_item ELSE @,
                  !.db_item = IF args.db_item # None THEN args.db_item ELSE @,
                  !.ux_item = IF args.ux_item # None THEN args.ux_item ELSE @],
        now, files)

(***************************************************************************)
(* Declarations.  A group is a subclass of AutoBlueprint; its models are   *)
(* its inner dataclasses; a field is one annotation of a model, with the   *)
(* default and default_factory of its dataclasses.Field.                   *)
(***************************************************************************)
MISSING == [missing |-> TRUE]
Val(v) == [value |-> v]
\* sqlalchemy.orm.relationship(target, back_populates=...)
relationship(target, back_populates) ==
    [relationship |-> target, back_populates |-> back_populates]

\* bool(v) of a default: None, '' and 0 are false
Truthy(v) == v \notin {None, Val(""), Val("0")}

FieldDecl(name, type, default, default_factory) ==
    [name |-> name, type |-> type, default |-> default,
     default_factory |-> default_factory]
\* name: type            /  name: type = default  /  field(default_factory=f)
Required(name, type) == FieldDecl(name, type, MISSING, MISSING)
WithDefault(name, type, default) == FieldDecl(name, type, default, MISSING)
WithFactory(name, type) == FieldDecl(name, type, MISSING, Val("factory"))

\* Declared types.  list[int] and the Annotated types have an __origin__.
SENTINEL == "list[int]"
Origin(type) ==
    CASE type = "list[int]" -> "list"
      [] type = "Annotated[int]" -> "int"
      [] type = "Annotated[Path]" -> "Path"
      [] OTHER -> ""
HasOrigin(type) == Origin(type) # ""

\* BauType._get_bautypes, lines 72-76: the subclasses of BauType by py_type
BauTypes ==
    {[cls |-> "String", py_type |-> "str", db_type |-> "sa.String", ux_type |-> "wtf.StringField"],
     [cls |-> "Integer", py_type |-> "int", db_type |-> "sa.Integer", ux_type |-> "wtf.IntegerField"],
     [cls |-> "Float", py_type |-> "float", db_type |-> "sa.Float", ux_type |-> "wtf.FloatField"],
     [cls |-> "File", py_type |-> "Path", db_type |-> "sa.JSON", ux_type |-> "wtf.FileField"]}

\* BauType._get_bautype, lines 78-87: [raised, type].  An annotated type
\* gives an instance of the base descriptor whose py_type is the annotation;
\* an unregistered type is a KeyError.
_get_bautype(type) ==
    LET base == IF HasOrigin(type) THEN Origin(type) ELSE type
        found == {t \in BauTypes : t.py_type = base}
    IN IF found = {} THEN [raised |-> "KeyError", type |-> None]
       ELSE LET t == CHOOSE t \in found : TRUE
            IN [raised |-> "",
                type |-> IF HasOrigin(type) THEN [t EXCEPT !.py_type = type] ELSE t]

(***************************************************************************)
(* Ordered dicts (dict, OrderedDict): a sequence of [key, value] items in  *)
(* insertion order; assigning to a key that is present keeps its place.    *)
(***************************************************************************)
DictKeys(d) == list([i \in DOMAIN d |-> d[i].key])
DictHas(d, k) == \E i \in DOMAIN d : d[i].key = k
DictGet(d, k) == d[CHOOSE i \in DOMAIN d : d[i].key = k].value
DictPut(d, k, v) ==
    IF DictHas(d, k)
    THEN list([i \in DOMAIN d |->
                 IF d[i].key = k THEN [key |-> k, value |-> v] ELSE d[i]])
    ELSE Append(d, [key |-> k, value |-> v])
RECURSIVE DictUpdate(_, _)
DictUpdate(d, e) ==
    IF e = <<>> THEN d
    ELSE DictUpdate(DictPut(d, Head(e).key, Head(e).value), Tail(e))

(***************************************************************************)
(* Order of Python strings (by code point) and sorting                     *)
(***************************************************************************)
CodePoints == DigitSeq \o UpperSeq \o <<"_">> \o LowerSeq
ord(c) == CHOOSE i \in DOMAIN CodePoints : CodePoints[i] = c

RECURSIVE StrLess(_, _)
StrLess(a, b) ==
    IF b = <<>> THEN FALSE
    ELSE IF a = <<>> THEN TRUE
    ELSE IF Head(a) # Head(b) THEN ord(Head(a)) < ord(Head(b))
    ELSE StrLess(Tail(a), Tail(b))

\* list.sort(key=...): stable and ascending; keys[i] is the key of s[i]
sort(s, keys) ==
    LET rank(i) == 1 + Cardinality({j \in DOMAIN s :
                         \/ keys[j] < keys[i]
                         \/ keys[j] = keys[i] /\ j < i})
    IN list([p \in DOMAIN s |-> s[CHOOSE i \in DOMAIN s : rank(i) = p]])

(***************************************************************************)
(* AutoBlueprint.defined_models, lines 152-181                             *)
(***************************************************************************)
\* inspect.getsource(cls), as the places where the text "class <Name>:"
\* stands: first in the class docstring (cls.doc), then at each model's
\* declaration; '' where the source cannot be had (OSError)
cls_code(cls, isInteractive) ==
    IF isInteractive THEN <<>>
    ELSE cls.doc \o list([i \in DOMAIN cls.models |-> cls.models[i].name])

\* cls_code.index(f"class {name}:")
index(code, name) == CHOOSE i \in DOMAIN code : code[i] = name /\ \A j \in 1..(i - 1) : code[j] # name

\* inspect.getmembers(cls, isclass): the inner classes, sorted by name
getmembers(cls) ==
    LET ms == cls.models
    IN sort(ms, list([i \in DOMAIN ms |->
                Cardinality({j \in DOMAIN ms : StrLess(ms[j].name, ms[i].name)})]))

\* defined_models without the sort by place in the source
DefinedModelsUnsorted(cls, isInteractive) ==
    LET members == getmembers(cls)
    IN DictUpdate(<<>>, list([i \in DOMAIN members |->
           [key |-> camel_to_snake(members[i].name), value |-> members[i]]]))

defined_models(cls, isInteractive) ==
    LET code == cls_code(cls, isInteractive)
        members == getmembers(cls)
        datamodels == IF code # <<>>
                      THEN sort(members, list([i \in DOMAIN members |->
                                              index(code, members[i].name)]))
                      ELSE members
    IN DictUpdate(<<>>, list([i \in DOMAIN datamodels |->
           [key |-> camel_to_snake(datamodels[i].name), value |-> datamodels[i]]]))

\* A namespace of the group's own models only
OwnModelsOnly(subclasses, isInteractive) ==
    defined_models(subclasses[Len(subclasses)], isInteractive)

\* A namespace that holds the models of the instantiated groups only
RECURSIVE AllModelsOfInstantiated(_, _)
AllModelsOfInstantiated(subclasses, isInteractive) ==
    IF subclasses = <<>> THEN <<>>
    ELSE LET subcls == subclasses[Len(subclasses)]
             before == AllModelsOfInstantiated(
                           SubSeq(subclasses, 1, Len(subclasses) - 1), isInteractive)
         IN IF bp[subcls.name].pc = "none" THEN before
            ELSE DictUpdate(before, defined_models(subcls, isInteractive))

\* AutoBlueprint.all_defined_models, lines 183-188, over
\* cls.__base__.__subclasses__(): the groups defined so far
RECURSIVE all_defined_models(_, _)
all_defined_models(subclasses, isInteractive) ==
    IF subclasses = <<>> THEN <<>>
    ELSE DictUpdate(
            all_defined_models(SubSeq(subclasses, 1, Len(subclasses) - 1), isInteractive),
            defined_models(subclasses[Len(subclasses)], isInteractive))

(***************************************************************************)
(* AutoBlueprint._get_default (215-220), _set_bauprint (222-236),          *)
(* _set_bauprints (238-242)                                                *)
(***************************************************************************)
_get_default(f) ==
    IF f.default # MISSING THEN f.default ELSE f.default_factory

\* The annotations that get a column descriptor
InBauprint(f) == f.type # SENTINEL \/ startswith(f.name, <<"_">>)

\* [raised, bauprint]: the ordered dict name -> Bauhaus(name, model, type, default)
_set_bauprint(model_name, model) ==
    LET fields == SelectSeq(model.fields, InBauprint)
    IN IF \E i \in DOMAIN fields : _get_bautype(fields[i].type).raised # ""
       THEN [raised |-> "KeyError", bauprint |-> <<>>]
       ELSE [raised |-> "",
             bauprint |-> list([i \in DOMAIN fields |->
                 [key |-> fields[i].name,
                  value |-> [name |-> fields[i].name,
                             model |-> model_name,
                             type |-> _get_bautype(fields[i].type).type,
                             default |-> _get_default(fields[i])]]])]

(***************************************************************************)
(* Bauhaus.create_db_column, types.py lines 221-236: the column, and the   *)
(* entry it adds to blueprint.model_properties[self.model] (None if none). *)
(***************************************************************************)
Column(name, type, foreign_key, default, nullable) ==
    [name |-> name, type |-> type, foreign_key |-> foreign_key,
     default |-> default, nullable |-> nullable, primary_key |-> FALSE]

\* sa.ForeignKey(table + ".id")
ForeignKey(table) == [table |-> table, column |-> "id"]

IsForeignKey(self, all_models) ==
    /\ endswith(self.name, ID_SUFFIX)
    /\ DictHas(all_models, DropLast3(self.name))
    /\ self.type.py_type = "int"

\* nullable also where the field has no default
NullableUnlessValue(self) == self.default \in {None, MISSING}

Nullable(self) == self.default = None

create_db_column(self, all_models) ==
    IF IsForeignKey(self, all_models)
    THEN [property |-> [key |-> DropLast3(self.name),
                        value |-> relationship(snake_to_camel(DropLast3(self.name)), None)],
          column |-> Column(self.name, "sa.Integer", ForeignKey(DropLast3(self.name)),
                            None, Nullable(self))]
    ELSE [property |-> None,
          column |-> Column(self.name, self.type.db_type, None,
                            IF self.default = MISSING THEN None ELSE self.default,
                            Nullable(self))]
(***************************************************************************)
(* The declarations the model draws from: the models of the repository's   *)
(* tests (src/tests/__init__.py: Genus, Species, Crop, CropVariety) and    *)
(* three more that declare what the tests do not: defaults of every kind   *)
(* on `_id` fields, an `_id` field that is not an int, a relationship      *)
(* given as a sentinel field's default, a sentinel field naming no model,  *)
(* a sentinel field without default, a sentinel field with a leading "_".  *)
(***************************************************************************)
N_Genus == <<"G","e","n","u","s">>
N_Species == <<"S","p","e","c","i","e","s">>
N_Crop == <<"C","r","o","p">>
N_CropVariety == <<"C","r","o","p","V","a","r","i","e","t","y">>
N_FieldSample == <<"F","i","e","l","d","S","a","m","p","l","e">>
N_Draft == <<"D","r","a","f","t">>
N_Hidden == <<"H","i","d","d","e","n">>
N_Test == <<"T","e","s","t">>
N_OtherTest == <<"O","t","h","e","r","T","e","s","t">>
F_name == <<"n","a","m","e">>
F_family == <<"f","a","m","i","l","y">>
F_extant == <<"e","x","t","a","n","t">>
F_description == <<"d","e","s","c","r","i","p","t","i","o","n">>
F_species == <<"s","p","e","c","i","e","s">>
F_genus_id == <<"g","e","n","u","s","_","i","d">>
F_image == <<"i","m","a","g","e">>
F_species_id == <<"s","p","e","c","i","e","s","_","i","d">>
F_crop_variety == <<"c","r","o","p","_","v","a","r","i","e","t","y">>
F_crop_id == <<"c","r","o","p","_","i","d">>
F_crop_variety_id == <<"c","r","o","p","_","v","a","r","i","e","t","y","_","i","d">>
F_taxon_id == <<"t","a","x","o","n","_","i","d">>
F_taxon == <<"t","a","x","o","n">>
F_genus == <<"g","e","n","u","s">>
F_notes == <<"n","o","t","e","s">>
F__log == <<"_","l","o","g">>
F_owner == <<"o","w","n","e","r">>

DataModel(name, fields) == [name |-> name, fields |-> fields]

Genus ==
    DataModel(N_Genus,
        <<Required(F_name, "str"),
          Required(F_family, "str"),
          WithDefault(F_extant, "str", Val("yes")),
          WithDefault(F_description, "str", None),
          WithDefault(F_species, SENTINEL, None)>>)
Species ==
    DataModel(N_Species,
        <<Required(F_genus_id, "int"),
          Required(F_name, "str"),
          Required(F_image, "Annotated[Path]")>>)
Crop ==
    DataModel(N_Crop,
        <<Required(F_species_id, "int"),
          Required(F_name, "str"),
          WithDefault(F_description, "str", None),
          WithDefault(F_crop_variety, SENTINEL, None)>>)
CropVariety ==
    DataModel(N_CropVariety,
        <<Required(F_crop_id, "int"),
          Required(F_name, "str")>>)
FieldSample ==
    DataModel(N_FieldSample,
        <<Required(F_genus_id, "str"),
          WithDefault(F_crop_id, "int", None),
          WithDefault(F_crop_variety_id, "int", Val("1")),
          WithDefault(F_taxon_id, "int", Val("0")),
          WithFactory(F_species_id, "int"),
          WithDefault(F_genus, SENTINEL, relationship(N_Genus, F_owner)),
          WithDefault(F_taxon, SENTINEL, None)>>)
Draft ==
    DataModel(N_Draft,
        <<Required(F_name, "str"),
          Required(F_notes, SENTINEL)>>)
Hidden ==
    DataModel(N_Hidden,
        <<Required(F_name, "str"),
          WithDefault(F__log, SENTINEL, None)>>)

\* The two groups of the tests, and the model classes each may declare
GroupNames == {N_Test, N_OtherTest}
TestCatalog == {Genus, Species, Draft, Hidden}
OtherTestCatalog == {Crop, CropVariety, FieldSample}
\* bs = BullStack(..., [Test(forensics=False), OtherTest(forensics=True)])
Forensics(g) == g = N_OtherTest

\* Models declared in one group, at most
MaxModels == 2

RECURSIVE DistinctSeqs(_, _)
\* the sequences of at most n distinct elements of S
DistinctSeqs(S, n) ==
    IF n = 0 THEN {<<>>}
    ELSE LET shorter == DistinctSeqs(S, n - 1)
             longest == {t \in shorter : Len(t) = n - 1}
         IN shorter \cup {Append(p[1], p[2]) :
                             p \in {q \in longest \X S : q[2] \notin Range(q[1])}}

\* The model classes of one group, in the order of their declaration
TestModels == DistinctSeqs(TestCatalog, MaxModels) \ {<<>>}
OtherTestModels == DistinctSeqs(OtherTestCatalog, MaxModels) \ {<<>>}
GroupModels(g) == IF g = N_Test THEN TestModels ELSE OtherTestModels

\* _set_bauprints that stops after the first model
SetBauprintsFirstOnly(datamodels, prints) ==
    IF datamodels = <<>> THEN [raised |-> "", bauprint |-> prints]
    ELSE LET r == _set_bauprint(Head(datamodels).key, Head(datamodels).value)
         IN IF r.raised # "" THEN [raised |-> r.raised, bauprint |-> prints]
            ELSE [raised |-> "",
                  bauprint |-> DictPut(prints, Head(datamodels).value.name, r.bauprint)]

\* AutoBlueprint._set_bauprints over self.datamodels: [raised, bauprint],
\* with bauprint the __bauprint__ of every model class set so far (a
\* KeyError leaves the models after the failing one without)
RECURSIVE _set_bauprints(_, _)
_set_bauprints(datamodels, prints) ==
    IF datamodels = <<>> THEN [raised |-> "", bauprint |-> prints]
    ELSE LET r == _set_bauprint(Head(datamodels).key, Head(datamodels).value)
         IN IF r.raised # "" THEN [raised |-> r.raised, bauprint |-> prints]
            ELSE _set_bauprints(Tail(datamodels),
                                DictPut(prints, Head(datamodels).value.name, r.bauprint))

(***************************************************************************)
(* AutoBlueprint.register_models, lines 281-356: one iteration of its      *)
(* loop, for the model dm under the namespace key name.                    *)
(***************************************************************************)
\* lines 287-290: the columns of the descriptors, and the properties that
\* create_db_column registers on the way
RECURSIVE CreateColumns(_, _, _)
CreateColumns(descriptors, all_models, acc) ==
    IF descriptors = <<>> THEN acc
    ELSE LET r == create_db_column(Head(descriptors).value, all_models)
         IN CreateColumns(Tail(descriptors), all_models,
                [columns |-> DictPut(acc.columns, Head(descriptors).key, r.column),
                 properties |-> IF r.property = None THEN acc.properties
                                ELSE DictPut(acc.properties, r.property.key,
                                             r.property.value)])

\* lines 291-294
ForensicsColumns ==
    <<[key |-> <<"_","u","s","e","r","_","i","d">>,
       value |-> Column(<<"_","u","s","e","r","_","i","d">>, "sa.Integer", None,
                        Val("current_user.id"), FALSE)],
      [key |-> <<"_","m","o","d","_","d","a","t","e","t","i","m","e">>,
       value |-> Column(<<"_","m","o","d","_","d","a","t","e","t","i","m","e">>,
                        "sa.DateTime", None, Val("datetime.now"), FALSE)]>>

\* line 298
IdColumn ==
    [Column(<<"i","d">>, "sa.Integer", None, None, FALSE) EXCEPT !.primary_key = TRUE]

LIST_SUFFIX == <<"_","l","i","s","t">>

\* lines 305-311: the property registered for the sentinel field f, whose
\* class attribute is its default: the default itself if it is truthy
\* (the first: an entry only where the field names a declared model; the
\* second: the inferred relationship whatever the default)
OneToManyIfDeclared(name, f) ==
    IF Truthy(f.default) THEN <<[key |-> f.name \o LIST_SUFFIX, value |-> f.default]>>
    ELSE IF \E i \in DOMAIN classes : \E j \in DOMAIN classes[i].models :
                camel_to_snake(classes[i].models[j].name) = f.name
    THEN <<[key |-> f.name \o LIST_SUFFIX,
            value |-> relationship(snake_to_camel(f.name), str_lower(name))]>>
    ELSE <<>>

OneToManyAlwaysInferred(name, f) ==
    <<[key |-> f.name \o LIST_SUFFIX,
       value |-> relationship(snake_to_camel(f.name), str_lower(name))]>>

OneToMany(name, f) ==
    <<[key |-> f.name \o LIST_SUFFIX,
       value |-> IF Truthy(f.default) THEN f.default
                 ELSE relationship(snake_to_camel(f.name), str_lower(name))]>>

\* lines 303-312: getattr(dm, colname) is an AttributeError where the
\* dataclass field has no default (the class then has no such attribute)
RECURSIVE OneToManyLoop(_, _, _)
OneToManyLoop(name, fields, acc) ==
    IF fields = <<>> \/ acc.raised # "" THEN acc
    ELSE LET f == Head(fields)
         IN IF f.type # SENTINEL THEN OneToManyLoop(name, Tail(fields), acc)
            ELSE IF f.default = MISSING
            THEN [acc EXCEPT !.raised = "AttributeError"]
            ELSE OneToManyLoop(name, Tail(fields),
                    [acc EXCEPT !.properties = DictUpdate(@, OneToMany(name, f)),
                                !.columns = DictPut(@, f.name \o LIST_SUFFIX, None)])

\* str.replace('_', ' ').capitalize()
Header(c) ==
    list([i \in DOMAIN c |->
        IF c[i] = "_" THEN " " ELSE IF i = 1 THEN UpperChar(c[i]) ELSE LowerChar(c[i])])

\* lines 317-322, where the class has no such attributes yet
DataAttributes(columns) ==
    LET keys == DictKeys(columns)
        raw == SelectSeq(keys, LAMBDA c : ~startswith(c, <<"_">>))
        attributes == list([i \in DOMAIN raw |->
                          IF endswith(raw[i], ID_SUFFIX) THEN DropLast3(raw[i]) ELSE raw[i]])
    IN [_data_raw_attributes |-> raw,
        _data_attributes |-> attributes,
        _data_headers |-> list([i \in DOMAIN attributes |-> Header(attributes[i])])]

\* The iteration.  self is the instance, metadata the tables so far,
\* prints and attrs the __bauprint__ and _data_* attributes of the model
\* classes, subclasses the groups defined.  What it leaves behind when it
\* raises is what it had assigned by then.
register_model(self, name, dm, subclasses, isInteractive, metadata, prints, attrs) ==
    LET out == [self |-> [self EXCEPT !.model_properties = DictPut(@, name, <<>>)],
                metadata |-> metadata, attrs |-> attrs, raised |-> ""]
    IN IF ~DictHas(prints, dm.name) THEN [out EXCEPT !.raised = "AttributeError"]
       ELSE
       LET all_models == all_defined_models(subclasses, isInteractive)
           made == CreateColumns(DictGet(prints, dm.name), all_models,
                                 [columns |-> <<>>, properties |-> <<>>])
           columns == IF self.forensics THEN DictUpdate(made.columns, ForensicsColumns)
                      ELSE made.columns
           withFk == [out EXCEPT !.self.model_properties = DictPut(@, name, made.properties)]
       IN IF \E i \in DOMAIN metadata : metadata[i].name = str_lower(name)
          THEN [withFk EXCEPT !.raised = "InvalidRequestError"]
          ELSE
          LET table == [name |-> str_lower(name),
                        columns |-> <<IdColumn>> \o
                                    list([i \in DOMAIN columns |-> columns[i].value]),
                        model |-> dm.name,
                        group |-> self.cls,
                        defined |-> Len(subclasses)]
              withTable == [withFk EXCEPT !.metadata = Append(metadata, table)]
              many == OneToManyLoop(name, dm.fields,
                          [columns |-> columns, properties |-> made.properties,
                           raised |-> ""])
              withMany == [withTable EXCEPT
                              !.self.model_properties = DictPut(@, name, many.properties),
                              !.raised = many.raised]
          IN IF many.raised # "" THEN withMany
             ELSE [withMany EXCEPT
                      !.attrs = IF DictHas(attrs, dm.name) THEN @
                                ELSE DictPut(@, dm.name, DataAttributes(many.columns)),
                      !.self.models = DictPut(@, str_lower(name), dm.name)]

(***************************************************************************)
(* AutoBlueprint.register_forms, lines 244-279: the form class of every    *)
(* model, as the ordered dict of its fields.                               *)
(***************************************************************************)
Label(fieldname) == Header(fieldname)
SUBMIT == <<"s","u","b","m","i","t">>

FormField(f, default_value, all_models) ==
    IF endswith(f.name, ID_SUFFIX) /\ DictHas(all_models, DropLast3(f.name))
    THEN [kind |-> "SelectField", label |-> Label(f.name),
          choices |-> DictGet(all_models, DropLast3(f.name)).name,
          validators |-> <<>>, default |-> None]
    ELSE [kind |-> _get_bautype(f.type).type.ux_type, label |-> Label(f.name),
          choices |-> None,
          validators |-> IF f.type = "bool" THEN <<>>
                         ELSE IF default_value = None THEN <<"Optional">>
                         ELSE <<"InputRequired">>,
          default |-> IF default_value = MISSING THEN None ELSE default_value]

\* ModelForm with the submit field set in the class body, before the loop
ModelFormSubmitFirst(name, dm, descriptors, all_models) ==
    LET fields == SelectSeq(dm.fields, LAMBDA f : f.type # SENTINEL)
    IN <<[key |-> <<"s","u","b","m","i","t">>,
          value |-> [kind |-> "SubmitField", label |-> name, choices |-> None,
                     validators |-> <<>>, default |-> None]]>>
       \o list([i \in DOMAIN fields |->
           [key |-> fields[i].name,
            value |-> FormField(fields[i], DictGet(descriptors, fields[i].name).default,
                                all_models)]])

ModelForm(name, dm, descriptors, all_models) ==
    LET fields == SelectSeq(dm.fields, LAMBDA f : f.type # SENTINEL)
    IN list([i \in DOMAIN fields |->
           [key |-> fields[i].name,
            value |-> FormField(fields[i], DictGet(descriptors, fields[i].name).default,
                                all_models)]])
       \o <<[key |-> <<"s","u","b","m","i","t">>,
             value |-> [kind |-> "SubmitField", label |-> name, choices |-> None,
                        validators |-> <<>>, default |-> None]]>>

register_forms(datamodels, prints, all_models) ==
    DictUpdate(<<>>, list([i \in DOMAIN datamodels |->
        [key |-> str_lower(datamodels[i].key),
         value |-> ModelForm(datamodels[i].key, datamodels[i].value,
                             DictGet(prints, datamodels[i].value.name), all_models)]]))

(***************************************************************************)
(* The three specifications share the variables; each leaves the           *)
(* variables of the other two at rest.                                     *)
(***************************************************************************)
NoInstance == [cls |-> None]
NoCall == [cls |-> None, slot |-> "", item |-> None, at |-> 0]
NoBlueprint == [pc |-> "none"]

NamesIdle == nm = <<>> /\ snake = <<>> /\ camel = <<>> /\ npc = "idle"

BauIdle ==
    /\ bt = NoInstance
    /\ calls = 0
    /\ last = NoCall
    /\ raised = ""
    /\ disk = <<>>
    /\ clock = 0

StartupIdle ==
    /\ interactive = FALSE
    /\ classes = <<>>
    /\ bp = [g \in GroupNames |-> NoBlueprint]
    /\ bauprint = <<>>
    /\ tables = <<>>
    /\ dmattrs = <<>>

NoApp == [fair_data |-> TRUE, protect |-> None, endpoints |-> <<>>, view_functions |-> {}]
NoResponse == [handler |-> "", status |-> "", location |-> None, choices |-> <<>>]

RunIdle ==
    /\ app = [g \in GroupNames |-> NoApp]
    /\ session = <<>>
    /\ response = NoResponse
(***************************************************************************)
(* Specification SpecNames: a declared class name, converted to its        *)
(* namespace key (defined_models) and back (the relationship target).      *)
(***************************************************************************)
MaxNameLen == 4
NameChars == {"A", "B", "a", "b", "_", "1"}

RECURSIVE SeqsUpTo(_, _)
SeqsUpTo(S, n) ==
    IF n = 0 THEN {<<>>}
    ELSE LET shorter == SeqsUpTo(S, n - 1)
         IN shorter \cup {Append(s, c) : s \in {t \in shorter : Len(t) = n - 1}, c \in S}

\* Declared class names, written as the repository writes them: an
\* identifier with a leading capital
ClassNames == {s \in SeqsUpTo(NameChars, MaxNameLen) : s # <<>> /\ IsUpper(s[1])}


(***************************************************************************)
(* SpecNames: the actions                                                 *)
(***************************************************************************)
NamesInit ==
    /\ nm \in ClassNames
    /\ snake = <<>>
    /\ camel = <<>>
    /\ npc = "start"
    /\ BauIdle
    /\ StartupIdle
    /\ RunIdle

\* defined_models line 178: the namespace key of the declared name
ToSnake ==
    /\ npc = "start"
    /\ snake' = camel_to_snake(nm)
    /\ npc' = "snaked"
    /\ UNCHANGED <<nm, camel>>
    /\ UNCHANGED bauVars
    /\ UNCHANGED startupVars
    /\ UNCHANGED runVars

\* create_db_column line 226 / register_models line 308: the target class name
ToCamel ==
    /\ npc = "snaked"
    /\ camel' = snake_to_camel(snake)
    /\ npc' = "cameled"
    /\ UNCHANGED <<nm, snake>>
    /\ UNCHANGED bauVars
    /\ UNCHANGED startupVars
    /\ UNCHANGED runVars

NextNames == ToSnake \/ ToCamel

SpecNames == NamesInit /\ [][NextNames]_vars

(***************************************************************************)
(* Claims on the naming utilities (SpecNames)                              *)
(***************************************************************************)
\* C8 (as claimed): the name derived back from the namespace key is the
\* declared name, snake_to_camel(camel_to_snake(N)) = N, for every declared
\* model name N, names with consecutive capitals or underscores included.
C8_RoundTripIsDeclaredName ==
    npc = "cameled" => camel = nm

\* The names on which the round trip does give the declared name: no
\* underscore, a leading capital, and every other capital either follows a
\* lowercase letter or follows a capital and precedes a lowercase letter.
PlainCamelCase(s) ==
    /\ \A p \in DOMAIN s : s[p] # "_"
    /\ IsUpper(s[1])
    /\ \A p \in 2..Len(s) :
          IsUpper(s[p]) =>
             \/ IsLower(s[p - 1])
             \/ IsUpper(s[p - 1]) /\ p < Len(s) /\ IsLower(s[p + 1])

\* What the code does: exactly the plain CamelCase names round-trip.
RoundTripIffPlainCamelCase ==
    npc = "cameled" => ((camel = nm) <=> PlainCamelCase(nm))
(***************************************************************************)
(* Specification SpecBau: one descriptor instance, constructed and then    *)
(* invoked again, while the clock runs.                                    *)
(***************************************************************************)
MaxCalls == 2
MaxClock == 1


\* Annotated[Path, {'storage_location': 'species'}]: the metadata of py_type
StorageLocations == {None, Atom("species")}

Uploads == {[filename |-> n, mimetype |-> "image/png", stream |-> [bytes |-> n]] :
               n \in {"a b.png", "a_b.png"}}
FileDicts == {File_ux2py(u) : u \in Uploads}

\* The items a caller may hand to an instance of class c in slot s
ItemsFor(c, s) ==
    IF c = File
    THEN IF s = "ux_item" THEN Uploads ELSE FileDicts
    ELSE {Atom("a"), Atom("b")}

BauInit == BauIdle /\ NamesIdle /\ StartupIdle /\ RunIdle

\* The dataclass __init__ of a descriptor class with one item (or none, as
\* _get_bautype line 83-85 does for an annotated type): the fields are set
\* and __post_init__ runs.  A raise leaves no instance behind.
Construct(c, loc, slot, item) ==
    /\ bt = NoInstance
    /\ raised = ""
    /\ loc # None => c = File
    /\ LET fresh == [cls |-> c, storage_location |-> loc] @@ Args(slot, item)
           st == __post_init__(fresh, clock, disk)
       IN /\ bt' = IF st.raised = "" THEN st.b ELSE NoInstance
          /\ disk' = st.files
          /\ raised' = st.raised
    /\ calls' = IF slot = "" THEN calls ELSE calls + 1
    /\ last' = IF slot = "" THEN last
               ELSE [cls |-> c, slot |-> slot, item |-> item, at |-> clock]
    /\ UNCHANGED <<clock>>
    /\ UNCHANGED namesVars
    /\ UNCHANGED startupVars
    /\ UNCHANGED runVars

\* An invocation of the instance with one fresh item
Call(slot, item) ==
    /\ bt # NoInstance
    /\ raised = ""
    /\ calls < MaxCalls
    /\ LET st == __call__(bt, Args(slot, item), clock, disk)
       IN /\ bt' = st.b
          /\ disk' = st.files
          /\ raised' = st.raised
    /\ calls' = calls + 1
    /\ last' = [cls |-> bt.cls, slot |-> slot, item |-> item, at |-> clock]
    /\ UNCHANGED <<clock>>
    /\ UNCHANGED namesVars
    /\ UNCHANGED startupVars
    /\ UNCHANGED runVars

Tick ==
    /\ clock < MaxClock
    /\ clock' = clock + 1
    /\ UNCHANGED <<bt, calls, last, raised, disk>>
    /\ UNCHANGED namesVars
    /\ UNCHANGED startupVars
    /\ UNCHANGED runVars

ConstructAny ==
    \E c \in BauClasses, loc \in StorageLocations :
        \/ Construct(c, loc, "", None)
        \/ \E slot \in SLOTS : \E item \in ItemsFor(c, slot) : Construct(c, loc, slot, item)

CallAny ==
    \E slot \in SLOTS : \E item \in ItemsFor(bt.cls, slot) : Call(slot, item)

NextBau == ConstructAny \/ CallAny \/ Tick

SpecBau == BauInit /\ [][NextBau]_vars

(***************************************************************************)
(* Claims on the value bundle (SpecBau)                                    *)
(***************************************************************************)
\* The transforms __post_init__ needs when the given slot is the supplied one
Involved(slot) ==
    CASE slot = "py_item" -> {"py2db", "py2ux"}
      [] slot = "db_item" -> {"db2py", "py2ux"}
      [] slot = "ux_item" -> {"ux2py", "py2db"}
      [] OTHER -> {}

\* One item was supplied to a descriptor that defines the transforms
\* involved, and the invocation returned
Converted ==
    /\ bt # NoInstance
    /\ raised = ""
    /\ last.slot # ""
    /\ Involved(last.slot) \subseteq bt.cls.defines

\* The transforms as functions of an item, for a user-defined class and for
\* File (whose py2db returns the dict it was given)
AsFunction(f, x) ==
    IF bt.cls = File
    THEN IF f = "ux2py" THEN File_ux2py(x) ELSE x
    ELSE Term(f, x)

\* The three slots as the claim derives them from the supplied item
SlotsAsClaimed ==
    LET x == last.item
    IN CASE last.slot = "py_item" ->
              [py_item |-> x,
               db_item |-> AsFunction("py2db", x),
               ux_item |-> AsFunction("py2ux", x)]
         [] last.slot = "db_item" ->
              [py_item |-> AsFunction("db2py", x),
               db_item |-> x,
               ux_item |-> AsFunction("py2ux", AsFunction("db2py", x))]
         [] last.slot = "ux_item" ->
              [py_item |-> AsFunction("ux2py", x),
               db_item |-> AsFunction("py2db", AsFunction("ux2py", x)),
               ux_item |-> x]

SlotsAre(slots) ==
    /\ bt.py_item = slots.py_item
    /\ bt.db_item = slots.db_item
    /\ bt.ux_item = slots.ux_item

\* File with a storage location, handed an upload: py2db has written the
\* content and replaced it, in the internal item, by the path written
StoredUpload ==
    /\ bt.cls = File
    /\ bt.storage_location # None
    /\ last.slot = "ux_item"

StrippedDict ==
    [filename |-> last.item.filename,
     mimetype |-> last.item.mimetype,
     content_location |-> [dir |-> bt.storage_location,
                           stamp |-> last.at,
                           name |-> secure_filename(last.item.filename)]]

\* C1 (as claimed): after construction with exactly one item on a descriptor
\* that defines the transforms involved, internal given: storage =
\* py2db(internal), external = py2ux(internal); storage given: internal =
\* db2py(storage), external = py2ux(internal); external given: internal =
\* ux2py(external), storage = py2db(internal); the supplied slot is kept.
C1_SlotsAreTransformsOfGiven ==
    (Converted /\ calls = 1) => SlotsAre(SlotsAsClaimed)

\* C1 (amended): the same, but where File.py2db stores an upload the
\* internal item is no longer ux2py(external): its content is gone and its
\* content_location names the file written, and the storage item is that
\* same dict.
C1_SlotsAreTransformsOfGivenButStoredFile ==
    (Converted /\ calls = 1) =>
        IF StoredUpload
        THEN SlotsAre([py_item |-> StrippedDict,
                       db_item |-> StrippedDict,
                       ux_item |-> last.item])
        ELSE SlotsAre(SlotsAsClaimed)

C1_WitnessStorageGiven ==
    /\ Converted /\ calls = 1
    /\ bt.cls = BauClass("Custom", TRANSFORMS)
    /\ last.slot = "db_item"
    /\ bt.py_item = Term("db2py", Atom("a"))
    /\ bt.ux_item = Term("py2ux", Term("db2py", Atom("a")))

\* C2 (as claimed): after any sequence of invocations of one instance, each
\* with one fresh item, the three slots reflect only the latest item.  (On
\* classes that define all four transforms, so that nothing raises.)
C2_SlotsReflectLatestInvocation ==
    (Converted /\ bt.cls.defines = TRANSFORMS) => SlotsAre(SlotsAsClaimed)

\* C3 (as claimed): with a needed transform left at its default, an
\* invocation with one item does not fail; the slot that depended on the
\* absent transform stays None and the other slots are set.
C3_AbsentTransformIsNoError ==
    (calls = 1 /\ last.slot # "") =>
        /\ raised = ""
        /\ bt # NoInstance
        /\ bt[last.slot] = last.item
        /\ \A f \in Involved(last.slot) \ last.cls.defines :
              bt[IF f = "py2db" THEN "db_item"
                 ELSE IF f = "py2ux" THEN "ux_item" ELSE "py_item"] = None


\* One conversion of an upload by a File descriptor: File(ux_item=upload),
\* or File(py_type=...)(ux_item=upload) as db_transform does for an
\* annotated field
UploadConverted ==
    /\ bt # NoInstance
    /\ bt.cls = File
    /\ calls = 1
    /\ last.slot = "ux_item"

\* C15: after the conversion of an upload the internal item has the
\* upload's filename and mimetype.  With a storage location, the decoded
\* bytes are in exactly one file, under that location, the items for the
\* program and for storage hold its path as content_location and no
\* content; without one, no file is written and both items keep the
\* encoded content.
C15_UploadStoredOnceContentRemoved ==
    UploadConverted =>
        /\ raised = ""
        /\ bt.py_item.filename = last.item.filename
        /\ bt.py_item.mimetype = last.item.mimetype
        /\ bt.db_item = bt.py_item
        /\ IF bt.storage_location # None
           THEN /\ "content" \notin DOMAIN bt.py_item
                /\ bt.py_item.content_location.dir = bt.storage_location
                /\ disk = <<[path |-> bt.py_item.content_location,
                             bytes |-> last.item.stream]>>
           ELSE /\ disk = <<>>
                /\ "content_location" \notin DOMAIN bt.py_item
                /\ bt.py_item.content = b64encode(last.item.stream)

\* C15 witness: an upload was converted by an instance made without items
\* for a type annotated with the storage location, and its file is written
C15_WitnessAnnotatedUploadStored ==
    /\ UploadConverted
    /\ bt.storage_location = Atom("species")
    /\ last.item.filename = "a b.png"
    /\ Len(disk) = 1
    /\ disk[1].path.name = "a_b.png"
    /\ disk[1].path.stamp = 1

(***************************************************************************)
(* Specification Spec: the groups are defined one after another, and       *)
(* constructed (AutoBlueprint.__init__, lines 101-104) one at a time, in   *)
(* any order that defines a group before it is constructed.                *)
(***************************************************************************)
Init ==
    /\ interactive \in BOOLEAN
    /\ classes = <<>>
    /\ bp = [g \in GroupNames |-> NoBlueprint]
    /\ bauprint = <<>>
    /\ tables = <<>>
    /\ dmattrs = <<>>
    /\ NamesIdle
    /\ BauIdle
    /\ RunIdle

DefinedGroups == {classes[i].name : i \in DOMAIN classes}
ClassOf(g) == classes[CHOOSE i \in DOMAIN classes : classes[i].name = g]

\* No __init__ is running, and none has raised (an exception at startup
\* ends the program)
AtRest == \A g \in GroupNames : bp[g].pc \in {"none", "done"}

\* The class statement of a group: its models in the order of the source,
\* and the "class <Name>:" texts its docstring holds.
DefineClass(g, models, doc) ==
    /\ AtRest
    /\ g \notin DefinedGroups
    /\ doc = <<>> \/ (~interactive /\ Len(models) > 1 /\ doc = <<models[Len(models)].name>>)
    /\ classes' = Append(classes, [name |-> g, models |-> models, doc |-> doc])
    /\ UNCHANGED <<interactive, bp, bauprint, tables, dmattrs>>
    /\ UNCHANGED namesVars
    /\ UNCHANGED bauVars
    /\ UNCHANGED runVars

\* __init__ up to and including self._set_bauprints() (line 102)
Construct_set_bauprints(g, forensics) ==
    /\ AtRest
    /\ g \in DefinedGroups
    /\ bp[g].pc = "none"
    /\ LET r == _set_bauprints(defined_models(ClassOf(g), interactive), bauprint)
       IN /\ bauprint' = r.bauprint
          /\ bp' = [bp EXCEPT ![g] =
                        [cls |-> g,
                         pc |-> IF r.raised = "" THEN "register_models" ELSE "raised",
                         raised |-> r.raised,
                         i |-> 1,
                         forensics |-> forensics,
                         models |-> <<>>,
                         model_properties |-> <<>>,
                         forms |-> <<>>]]
    /\ UNCHANGED <<interactive, classes, tables, dmattrs>>
    /\ UNCHANGED namesVars
    /\ UNCHANGED bauVars
    /\ UNCHANGED runVars

\* One iteration of the loop of self.register_models() (line 103)
RegisterModel(g) ==
    /\ bp[g].pc = "register_models"
    /\ LET datamodels == defined_models(ClassOf(g), interactive)
           name == datamodels[bp[g].i].key
           dm == datamodels[bp[g].i].value
           r == register_model(bp[g], name, dm, classes, interactive,
                               tables, bauprint, dmattrs)
       IN /\ tables' = r.metadata
          /\ dmattrs' = r.attrs
          /\ bp' = [bp EXCEPT ![g] =
                        [r.self EXCEPT
                            !.raised = r.raised,
                            !.i = @ + 1,
                            !.pc = IF r.raised # "" THEN "raised"
                                   ELSE IF bp[g].i = Len(datamodels) THEN "register_forms"
                                   ELSE "register_models"]]
    /\ UNCHANGED <<interactive, classes, bauprint>>
    /\ UNCHANGED namesVars
    /\ UNCHANGED bauVars
    /\ UNCHANGED runVars

\* self.register_forms() (line 104)
RegisterForms(g) ==
    /\ bp[g].pc = "register_forms"
    /\ bp' = [bp EXCEPT ![g].forms =
                  register_forms(defined_models(ClassOf(g), interactive), bauprint,
                                 all_defined_models(classes, interactive)),
                        ![g].pc = "done"]
    /\ UNCHANGED <<interactive, classes, bauprint, tables, dmattrs>>
    /\ UNCHANGED namesVars
    /\ UNCHANGED bauVars
    /\ UNCHANGED runVars

Define == \E g \in GroupNames : \E models \in GroupModels(g) :
             \E doc \in {<<>>, <<models[Len(models)].name>>} : DefineClass(g, models, doc)
Construct_1 == \E g \in GroupNames : Construct_set_bauprints(g, Forensics(g))
Construct_2 == \E g \in GroupNames : RegisterModel(g)
Construct_3 == \E g \in GroupNames : RegisterForms(g)

Next == Define \/ Construct_1 \/ Construct_2 \/ Construct_3

Spec == Init /\ [][Next]_vars

(***************************************************************************)
(* Routing: AutoBlueprint.add_url_rule (437-456) and add_url_crud_rules    *)
(* (358-435).  An instance's routing state is the record                   *)
(* [fair_data, protect, endpoints, view_functions]: the two keyword        *)
(* arguments of __init__ (lines 81-83), the endpoint names handed to       *)
(* Blueprint.add_url_rule in order, and the keys of self.view_functions.   *)
(***************************************************************************)
S_create == <<"_","c","r","e","a","t","e">>
S_read == <<"_","r","e","a","d">>
S_update == <<"_","u","p","d","a","t","e">>
S_update_attribute == S_update \o <<"_","a","t","t","r","i","b","u","t","e">>
S_delete == <<"_","d","e","l","e","t","e">>
S_export == <<"_","e","x","p","o","r","t">>
S_import_db == <<"i","m","p","o","r","t","_","d","b">>
S_full_export == <<"f","u","l","l","_","e","x","p","o","r","t">>
S_roleprotect == <<"_","r","o","l","e","p","r","o","t","e","c","t">>
S_globalroleprotect == <<"_","g","l","o","b","a","l">> \o S_roleprotect
S_loginprotect == <<"_","l","o","g","i","n","p","r","o","t","e","c","t">>

\* The values of protect_data and protect: None, a bool, or a role name
Bool(b) == [bool |-> b]
Role(r) == [role |-> r]
\* isinstance(x, str), and bool(x)
IsStr(x) == "role" \in DOMAIN x
IsSet(x) == x \notin {None, Bool(FALSE), Role("")}

\* add_url_rule(rule, endpoint, view_func=..., protect=protect)
add_url_rule(self, endpoint, protect) ==
    IF (protect \in {None, Bool(TRUE)} \/ IsStr(protect)) /\ IsSet(self.protect)
    THEN LET renamed == endpoint \o
                 (IF IsStr(protect) THEN S_roleprotect
                  ELSE IF IsStr(self.protect) THEN S_globalroleprotect
                  ELSE S_loginprotect)
         IN [self EXCEPT !.view_functions = @ \cup {renamed},
                         !.endpoints = Append(@, renamed)]
    ELSE [self EXCEPT !.endpoints = Append(@, endpoint)]

\* the one value of a set of one: Only({e(x) : x \in {v}}) is e(v) with v
\* computed once
Only(S) == CHOOSE x \in S : TRUE

\* the calls of add_url_rule in the body of the loop of add_url_crud_rules
\* for one name (lines 360-414), as (endpoint, protect), with
\* self._export_route set (imex=True, the default)
CrudRules(self, name) ==
    LET hidden == Bool(~self.fair_data)
    IN <<<<name \o S_create, None>>,
         <<name \o LIST_SUFFIX, hidden>>,
         <<name \o S_read, hidden>>,
         <<name \o S_read, hidden>>,
         <<name \o S_update, None>>,
         <<name \o S_update_attribute, None>>,
         <<name \o S_delete, None>>,
         <<name \o S_export, None>>>>

\* the calls for the names from the i-th on, then import_db and full_export
\* (lines 416-435, with self._import_route and self._export_route set)
RECURSIVE CrudLoop(_, _, _)
CrudLoop(self, names, i) ==
    IF i > Len(names)
    THEN <<<<S_import_db, None>>, <<S_full_export, None>>>>
    ELSE CrudRules(self, names[i]) \o CrudLoop(self, names, i + 1)

\* the calls made one after the other, from the i-th on
RECURSIVE AddRules(_, _, _)
AddRules(self, rules, i) ==
    IF i > Len(rules) THEN self
    ELSE Only({AddRules(next, rules, i + 1) :
                  next \in {add_url_rule(self, rules[i][1], rules[i][2])}})

\* add_url_crud_rules with enable_crud=True: self.enable_crud = self.models
add_url_crud_rules(self, enable_crud) ==
    Only({AddRules(self, rules, 1) : rules \in {CrudLoop(self, enable_crud, 1)}})

\* url_for(f"{self.name}_blueprint.{endpoint}"): werkzeug builds the URL
\* of an endpoint the blueprint registered and raises BuildError otherwise
url_for(self, endpoint) ==
    IF endpoint \in Range(self.endpoints) THEN [url |-> endpoint, raised |-> ""]
    ELSE [url |-> None, raised |-> "BuildError"]

(***************************************************************************)
(* AutoBlueprint.__init__ as a whole (lines 80-116), with enable_crud=True *)
(* and imex=True: what the constructor leaves behind in the instance, in   *)
(* the model classes and in the metadata.                                  *)
(***************************************************************************)
\* register_models, lines 281-356: the loop, from its i-th iteration on
RECURSIVE register_models(_, _, _, _, _, _)
register_models(i, st, datamodels, subclasses, isInteractive, prints) ==
    IF i > Len(datamodels) \/ st.raised # "" THEN st
    ELSE Only({register_models(i + 1, [r EXCEPT !.self.i = i + 1],
                               datamodels, subclasses, isInteractive, prints) :
                  r \in {register_model(st.self, datamodels[i].key, datamodels[i].value,
                                        subclasses, isInteractive, st.metadata, prints,
                                        st.attrs)}})

INDEX == <<"i","n","d","e","x">>

\* kwargs: [fair_data, forensics, protect_data]; world: [bauprint, tables,
\* dmattrs], the state shared with the other instances
__init__(cls, kwargs, subclasses, isInteractive, world) ==
    LET self0 == [cls |-> cls.name, pc |-> "register_models", raised |-> "", i |-> 1,
                  forensics |-> kwargs.forensics, models |-> <<>>,
                  model_properties |-> <<>>, forms |-> <<>>]
        routes0 == [fair_data |-> kwargs.fair_data, protect |-> kwargs.protect_data,
                    endpoints |-> <<INDEX>>, view_functions |-> {}]
    IN Only({
         IF prints.raised # ""
         THEN [self |-> [self0 EXCEPT !.pc = "raised", !.raised = prints.raised],
               app |-> NoApp, bauprint |-> prints.bauprint, tables |-> world.tables,
               dmattrs |-> world.dmattrs]
         ELSE Only({
           IF made.raised # ""
           THEN [self |-> [made.self EXCEPT !.pc = "raised", !.raised = made.raised],
                 app |-> NoApp, bauprint |-> prints.bauprint, tables |-> made.metadata,
                 dmattrs |-> made.attrs]
           ELSE [self |-> [made.self EXCEPT
                              !.pc = "done",
                              !.forms = register_forms(datamodels, prints.bauprint,
                                           all_defined_models(subclasses, isInteractive))],
                 app |-> add_url_crud_rules(routes0, DictKeys(made.self.models)),
                 bauprint |-> prints.bauprint, tables |-> made.metadata,
                 dmattrs |-> made.attrs] :
           made \in {register_models(1, [self |-> self0, metadata |-> world.tables,
                                         attrs |-> world.dmattrs, raised |-> ""],
                                     datamodels, subclasses, isInteractive,
                                     prints.bauprint)}}) :
         datamodels \in {defined_models(cls, isInteractive)},
         prints \in {_set_bauprints(defined_models(cls, isInteractive), world.bauprint)}})

(***************************************************************************)
(* AutoBlueprint.db_transform, lines 198-213                               *)
(***************************************************************************)
\* The class of the value bundle for a type descriptor, and the
\* storage_location of its py_type's metadata
ClassOfType(t) == IF t.cls = "File" THEN File ELSE BauClass(t.cls, {})
MetadataOf(t) == IF t.py_type = "Annotated[Path]" THEN Atom("species") ELSE None

\* the conversion done on one instance per type that all requests share:
\* once it has converted an upload its py_item and db_item are set, and
\* __post_init__ fills nothing in again
ConvertShared(type, item, now, files) ==
    LET t == _get_bautype(type).type
        fresh == [cls |-> ClassOfType(t), storage_location |-> MetadataOf(t)]
    IN IF HasOrigin(type) /\ files # <<>>
       THEN LET used == __call__(fresh @@ Args("", None), Args("ux_item", item),
                                 files[Len(files)].path.stamp, <<>>)
            IN [used EXCEPT !.files = files]
       ELSE IF HasOrigin(type)
       THEN __call__(fresh @@ Args("", None), Args("ux_item", item), now, files)
       ELSE __post_init__(fresh @@ Args("ux_item", item), now, files)

\* bautype(ux_item=item): the constructor of the descriptor class for a
\* plain type, __call__ on the instance that _get_bautype made for an
\* annotated one; in both cases the instance is new
Convert(type, item, now, files) ==
    LET t == _get_bautype(type).type
        fresh == [cls |-> ClassOfType(t), storage_location |-> MetadataOf(t)]
    IN IF HasOrigin(type)
       THEN __call__(fresh @@ Args("", None), Args("ux_item", item), now, files)
       ELSE __post_init__(fresh @@ Args("ux_item", item), now, files)

\* the loop over __annotations__: st is [data, files, raised]
RECURSIVE db_transform(_, _, _)
db_transform(fields, st, now) ==
    IF fields = <<>> \/ st.raised # "" THEN st
    ELSE LET f == Head(fields)
         IN IF ~DictHas(st.data, f.name) THEN db_transform(Tail(fields), st, now)
            ELSE IF "ux2py" \notin ClassOfType(_get_bautype(f.type).type).defines
            THEN db_transform(Tail(fields), st, now)
            ELSE LET c == Convert(f.type, DictGet(st.data, f.name), now, st.files)
                 IN db_transform(Tail(fields),
                        [data |-> DictPut(st.data, f.name, c.b.db_item),
                         files |-> c.files, raised |-> c.raised], now)

(***************************************************************************)
(* Specification SpecRun: the application of the tests, constructed        *)
(*   bs = BullStack(..., [Test(enable_crud=True, ...),                     *)
(*                        OtherTest(enable_crud=True, forensics=True)])    *)
(* serving requests.  OtherTest declares here one model, Harvest, with two *)
(* foreign keys to the models of Test.  protect_data and fair_data are the *)
(* same for both instances and take every value.  A handler runs as one    *)
(* step.                                                                   *)
(***************************************************************************)
N_Harvest == <<"H","a","r","v","e","s","t">>
Harvest ==
    DataModel(N_Harvest,
        <<Required(F_genus_id, "int"),
          Required(F_species_id, "int")>>)

RunClasses ==
    <<[name |-> N_Test, models |-> <<Genus, Species>>, doc |-> <<>>],
      [name |-> N_OtherTest, models |-> <<Harvest>>, doc |-> <<>>]>>

ProtectValues == {Bool(FALSE), Bool(TRUE), Role("editor")}

\* Test(...) and then OtherTest(...)
Started(protect_data, fair_data) ==
    Only({Only({[bp |-> (N_Test :> first.self) @@ (N_OtherTest :> second.self),
                 app |-> (N_Test :> first.app) @@ (N_OtherTest :> second.app),
                 bauprint |-> second.bauprint, tables |-> second.tables,
                 dmattrs |-> second.dmattrs] :
            second \in {__init__(RunClasses[2],
                            [fair_data |-> fair_data, forensics |-> Forensics(N_OtherTest),
                             protect_data |-> protect_data],
                            RunClasses, FALSE,
                            [bauprint |-> first.bauprint, tables |-> first.tables,
                             dmattrs |-> first.dmattrs])}}) :
       first \in {__init__(RunClasses[1],
                      [fair_data |-> fair_data, forensics |-> Forensics(N_Test),
                       protect_data |-> protect_data],
                      RunClasses, FALSE,
                      [bauprint |-> <<>>, tables |-> <<>>, dmattrs |-> <<>>])}})

RunInit ==
    /\ NamesIdle
    /\ BauIdle
    /\ interactive = FALSE
    /\ classes = RunClasses
    /\ \E protect_data \in ProtectValues, fair_data \in BOOLEAN :
          \E s \in {Started(protect_data, fair_data)} :
             /\ bp = s.bp
             /\ app = s.app
             /\ bauprint = s.bauprint
             /\ tables = s.tables
             /\ dmattrs = s.dmattrs
    /\ session = <<>>
    /\ response = NoResponse

\* Records stored by all the requests served, at most
MaxRecords == 2

ModelClass(n) ==
    CHOOSE m \in UNION {Range(classes[i].models) : i \in DOMAIN classes} : m.name = n

\* self.db.session.query(model).all() and .get(id), on the records stored
Query(records, model) == SelectSeq(records, LAMBDA rec : rec.model = model)
Get(records, model, id) == SelectSeq(records, LAMBDA rec : rec.model = model /\ rec.id = id)
\* the id the database gives the next record of a model
NextId(records, model) ==
    LET ids == {rec.id : rec \in Range(Query(records, model))}
    IN IF ids = {} THEN 1 ELSE 1 + CHOOSE n \in ids : \A k \in ids : k <= n

\* the providers written as "lambda: [... query(model) ...]": every one
\* reads the variable model when it is called, after the loop
FormInstanceLastModel(formcls, records) ==
    LET selects == SelectSeq(formcls, LAMBDA e : e.value.kind = "SelectField")
        model == selects[Len(selects)].value.choices
    IN list([i \in DOMAIN formcls |->
        IF formcls[i].value.kind = "SelectField"
        THEN [key |-> formcls[i].key,
              value |-> [formcls[i].value EXCEPT
                            !.choices = [model |-> model,
                                         ids |-> {rec.id : rec \in Range(Query(records, model))}]]]
        ELSE formcls[i]])

\* self.forms[name](): wtforms binds the fields, and a SelectField calls
\* its choices, the provider "lambda model=model: [(i.id, i) for i in
\* self.db.session.query(model).all()]" (line 261), as it is bound
FormInstance(formcls, records) ==
    list([i \in DOMAIN formcls |->
        IF formcls[i].value.kind = "SelectField"
        THEN [key |-> formcls[i].key,
              value |-> [formcls[i].value EXCEPT
                            !.choices = [model |-> @,
                                         ids |-> {rec.id : rec \in Range(Query(records, @))}]]]
        ELSE formcls[i]])

\* delattr(form, fieldname)
DelField(form, fieldname) == SelectSeq(form, LAMBDA e : e.key # fieldname)

IsSelect(e) == e.value.kind = "SelectField"
\* what a response shows of the form: the choices of its select fields
ChoicesOf(form) ==
    LET selects == SelectSeq(form, IsSelect)
    IN list([i \in DOMAIN selects |->
           [field |-> selects[i].key,
            model |-> selects[i].value.choices.model,
            ids |-> selects[i].value.choices.ids]])

\* form.validate_on_submit(): the request is a POST, the submitted values
\* pass the validators, and every select has one of its choices submitted
validate_on_submit(form, method, valid) ==
    /\ method = "POST"
    /\ valid
    /\ \A i \in DOMAIN form : IsSelect(form[i]) => form[i].value.choices.ids # {}

\* {k: form.data[k] for k in form.data.keys() - {'submit', 'csrf_token'}}:
\* an upload for a FileField, some value for the others
FormData(form, upload) ==
    LET fields == SelectSeq(form, LAMBDA e : e.key # SUBMIT)
    IN list([i \in DOMAIN fields |->
           [key |-> fields[i].key,
            value |-> IF fields[i].value.kind = "wtf.FileField" THEN upload
                      ELSE Atom("v")]])

\* the transformed values that are not plain: the file items
FileItems(data) == SelectSeq(data, LAMBDA e : e.value # Atom("v"))

Render(handler, name, form) ==
    [handler |-> handler, status |-> "render", location |-> None,
     choices |-> ChoicesOf(form)]
\* redirect(url_for(f"{self.name}_blueprint.{endpoint}"))
Redirect(handler, name, form, routes, endpoint) ==
    [handler |-> handler,
     status |-> IF url_for(routes, endpoint).raised = "" THEN "redirect" ELSE "BuildError",
     location |-> endpoint, choices |-> ChoicesOf(form)]
NotFound(handler, name) ==
    [handler |-> handler, status |-> "404", location |-> None,
     choices |-> <<>>]

\* list_attribute=None, the URL without <list_attribute>
NoAttribute == <<>>
\* The names that have routes: self.enable_crud = self.models
Routed(g) == bp[g].pc = "done" /\ app[g].endpoints # <<>>
\* the <x>_list properties of a model for which the UI offers "add"
ListAttributes(g, name) ==
    LET props == DictGet(bp[g].model_properties, name)
    IN {props[i].key : i \in {j \in DOMAIN props :
            /\ endswith(props[j].key, LIST_SUFFIX)
            /\ DictHas(bp[g].forms, SubSeq(props[j].key, 1, Len(props[j].key) - Len(LIST_SUFFIX)))}}

\* AutoBlueprint.create, lines 484-502
create(g, name, method, valid, upload) ==
    /\ Routed(g)
    /\ DictHas(bp[g].models, name)
    /\ LET form == FormInstance(DictGet(bp[g].forms, name), session)
       IN IF validate_on_submit(form, method, valid)
          THEN LET dm == ModelClass(DictGet(bp[g].models, name))
                   t == db_transform(dm.fields,
                            [data |-> FormData(form, upload), files |-> disk,
                             raised |-> ""], clock)
                   item == [model |-> dm.name, id |-> NextId(session, dm.name),
                            files |-> FileItems(t.data)]
               IN /\ Len(session) < MaxRecords
                  /\ session' = Append(session, item)
                  /\ disk' = t.files
                  /\ response' = Redirect("create", name, form, app[g], name \o LIST_SUFFIX)
          ELSE /\ response' = Render("create", name, form)
               /\ UNCHANGED <<session, disk>>
    /\ UNCHANGED <<bt, calls, last, raised, clock, app>>
    /\ UNCHANGED namesVars
    /\ UNCHANGED startupVars

\* AutoBlueprint.list, lines 504-506
list_view(g, name) ==
    /\ Routed(g)
    /\ DictHas(bp[g].models, name)
    /\ response' = [handler |-> "list", status |-> "render",
                    location |-> None, choices |-> <<>>]
    /\ UNCHANGED <<session, app>>
    /\ UNCHANGED namesVars
    /\ UNCHANGED bauVars
    /\ UNCHANGED startupVars

\* AutoBlueprint.read, lines 508-521
read(g, name, id, list_attribute) ==
    /\ Routed(g)
    /\ DictHas(bp[g].models, name)
    /\ list_attribute # NoAttribute => list_attribute \in ListAttributes(g, name)
    /\ response' =
          IF Get(session, DictGet(bp[g].models, name), id) = <<>>
          THEN NotFound("read", name)
          ELSE IF list_attribute = NoAttribute
          THEN Render("read", name, FormInstance(DictGet(bp[g].forms, name), session))
          ELSE [handler |-> "read", status |-> "render",
                location |-> None, choices |-> <<>>]
    /\ UNCHANGED <<session, app>>
    /\ UNCHANGED namesVars
    /\ UNCHANGED bauVars
    /\ UNCHANGED startupVars

\* a handler that raises: the response is the error, nothing is committed
Raised(handler, name, form, error) ==
    [handler |-> handler, status |-> error, location |-> None,
     choices |-> ChoicesOf(form)]

\* AutoBlueprint.update, lines 523-575.  With list_attribute a record of
\* the listed model is added to the item; without, the item is changed.
\* Lines 558-564 read current_user, a name the module does not define
\* (it is imported inside register_models only): NameError.
update(g, name, id, list_attribute, method, valid, upload) ==
    /\ Routed(g)
    /\ DictHas(bp[g].models, name)
    /\ list_attribute # NoAttribute => list_attribute \in ListAttributes(g, name)
    /\ LET found == Get(session, DictGet(bp[g].models, name), id)
       IN IF found = <<>>
          THEN /\ response' = NotFound("update", name)
               /\ UNCHANGED <<session, disk>>
          ELSE IF list_attribute # NoAttribute
          THEN LET list_model_name ==
                       SubSeq(list_attribute, 1, Len(list_attribute) - Len(LIST_SUFFIX))
                   form == DelField(
                               FormInstance(DictGet(bp[g].forms, list_model_name), session),
                               name \o ID_SUFFIX)
               IN IF validate_on_submit(form, method, valid)
                  THEN LET dm == ModelClass(DictGet(bp[g].models, list_model_name))
                           t == db_transform(dm.fields,
                                    [data |-> FormData(form, upload), files |-> disk,
                                     raised |-> ""], clock)
                           list_item == [model |-> dm.name,
                                         id |-> NextId(session, dm.name),
                                         files |-> FileItems(t.data)]
                       IN /\ Len(session) < MaxRecords
                          /\ session' = Append(session, list_item)
                          /\ disk' = t.files
                          /\ response' = Redirect("update", name, form, app[g],
                                                  name \o LIST_SUFFIX)
                  ELSE /\ response' = Render("update", list_attribute, form)
                       /\ UNCHANGED <<session, disk>>
          ELSE LET form == FormInstance(DictGet(bp[g].forms, name), session)
               IN IF ~validate_on_submit(form, method, valid)
                  THEN /\ response' = Render("update", name, form)
                       /\ UNCHANGED <<session, disk>>
                  ELSE IF bp[g].forensics
                  THEN /\ response' = Raised("update", name, form, "NameError")
                       /\ UNCHANGED <<session, disk>>
                  ELSE LET dm == ModelClass(DictGet(bp[g].models, name))
                           t == db_transform(dm.fields,
                                    [data |-> FormData(form, upload), files |-> disk,
                                     raised |-> ""], clock)
                       IN /\ session' = list([i \in DOMAIN session |->
                                 IF session[i] = found[1]
                                 THEN [session[i] EXCEPT !.files = FileItems(t.data)]
                                 ELSE session[i]])
                          /\ disk' = t.files
                          /\ response' = Redirect("update", name, form, app[g],
                                                  name \o S_read)
    /\ UNCHANGED <<bt, calls, last, raised, clock, app>>
    /\ UNCHANGED namesVars
    /\ UNCHANGED startupVars

\* AutoBlueprint.delete, lines 577-593; redirect(self.url_prefix) needs no
\* endpoint
delete(g, name, id, method, valid) ==
    /\ Routed(g)
    /\ DictHas(bp[g].models, name)
    /\ LET found == Get(session, DictGet(bp[g].models, name), id)
           form == FormInstance(DictGet(bp[g].forms, name), session)
       IN IF found = <<>>
          THEN /\ response' = NotFound("delete", name)
               /\ UNCHANGED session
          ELSE IF ~validate_on_submit(form, method, valid)
          THEN /\ response' = Render("delete", name, form)
               /\ UNCHANGED session
          ELSE IF bp[g].forensics
          THEN /\ response' = Raised("delete", name, form, "NameError")
               /\ UNCHANGED session
          ELSE /\ session' = SelectSeq(session, LAMBDA rec : rec # found[1])
               /\ response' = [handler |-> "delete", status |-> "redirect",
                               location |-> None, choices |-> ChoicesOf(form)]
    /\ UNCHANGED app
    /\ UNCHANGED namesVars
    /\ UNCHANGED bauVars
    /\ UNCHANGED startupVars

\* The requests: a routed name of a group, the id of the URL, the method
\* and whether the submitted values pass the validators, an upload where
\* the form has a FileField
RoutedNames(g) == Range(DictKeys(bp[g].models))
RecordIds == 1..MaxRecords
Submissions == {<<"GET", FALSE>>, <<"POST", FALSE>>, <<"POST", TRUE>>}
HasFileField(g, name) ==
    \E e \in Range(DictGet(bp[g].forms, name)) : e.value.kind = "wtf.FileField"
UploadsFor(g, name) ==
    IF HasFileField(g, name) THEN Uploads ELSE {CHOOSE u \in Uploads : TRUE}

Create == \E g \in GroupNames : \E name \in RoutedNames(g) : \E s \in Submissions :
             \E upload \in UploadsFor(g, name) : create(g, name, s[1], s[2], upload)
List == \E g \in GroupNames : \E name \in RoutedNames(g) : list_view(g, name)
Read == \E g \in GroupNames : \E name \in RoutedNames(g) : \E id \in RecordIds :
             \E la \in {NoAttribute} \cup ListAttributes(g, name) : read(g, name, id, la)
\* the form an update shows: of the listed model with list_attribute
FormName(name, la) ==
    IF la = NoAttribute THEN name ELSE SubSeq(la, 1, Len(la) - Len(LIST_SUFFIX))
Update == \E g \in GroupNames : \E name \in RoutedNames(g) : \E id \in RecordIds :
             \E la \in {NoAttribute} \cup ListAttributes(g, name) : \E s \in Submissions :
                \E upload \in UploadsFor(g, FormName(name, la)) :
                   update(g, name, id, la, s[1], s[2], upload)
Delete == \E g \in GroupNames : \E name \in RoutedNames(g) : \E id \in RecordIds :
             \E s \in Submissions : delete(g, name, id, s[1], s[2])

NextRun == Create \/ List \/ Read \/ Update \/ Delete \/ Tick

SpecRun == RunInit /\ [][NextRun]_vars

(***************************************************************************)
(* Properties of startup, under Spec.  A table records the model class it  *)
(* was made for (model), the instance that made it (group) and how many    *)
(* groups were defined then (defined): the shared namespace at that time   *)
(* is the models of the first `defined` classes.                           *)
(***************************************************************************)
ModelOf(t) ==
    CHOOSE m \in UNION {Range(classes[i].models) : i \in DOMAIN classes} : m.name = t.model
NamespaceKeysAt(n) ==
    UNION {{camel_to_snake(m.name) : m \in Range(classes[i].models)} : i \in 1..n}
ColumnNames(t) == {t.columns[i].name : i \in DOMAIN t.columns}
ColumnOf(t, n) == t.columns[CHOOSE i \in DOMAIN t.columns : t.columns[i].name = n]
\* blueprint.model_properties[name] of the table's model
PropsOf(t) == DictGet(bp[t.group].model_properties, camel_to_snake(t.model))
\* the iteration of register_models for the table's model ran to its end
Synthesized(t) == DictHas(bp[t.group].models, t.name)
IntIdField(f) == f.type = "int" /\ endswith(f.name, ID_SUFFIX)
SentinelFields(m) == {f \in Range(m.fields) : f.type = SENTINEL}

\* C4: a field x_id declared int gives a foreign key to x.id, and a
\* relationship property x on the owning model, if x is a key of the shared
\* namespace when the column is created; otherwise it gives a plain integer
\* column without foreign key, and no property x.
C4_IntIdFieldIsForeignKeyIffInNamespace ==
    \A t \in Range(tables) : \A f \in Range(ModelOf(t).fields) :
        IntIdField(f) =>
            LET x == DropLast3(f.name)
                col == ColumnOf(t, f.name)
            IN /\ f.name \in ColumnNames(t)
               /\ col.type = "sa.Integer"
               /\ IF x \in NamespaceKeysAt(t.defined)
                  THEN /\ col.foreign_key = ForeignKey(x)
                       /\ DictHas(PropsOf(t), x)
                       /\ DictGet(PropsOf(t), x).back_populates = None
                  ELSE /\ col.foreign_key = None
                       /\ ~DictHas(PropsOf(t), x)

\* C4 witness: FieldSample's table, made with Crop in the namespace and no
\* Taxon: crop_id is a foreign key, taxon_id is not; and Crop's table whose
\* species_id refers to a model of the other group.
C4_WitnessBothCases ==
    /\ \E t \in Range(tables) :
          /\ t.model = N_FieldSample
          /\ ColumnOf(t, F_crop_id).foreign_key = ForeignKey(<<"c","r","o","p">>)
          /\ ColumnOf(t, F_taxon_id).foreign_key = None
    /\ \E t \in Range(tables) :
          /\ t.model = N_Crop
          /\ ColumnOf(t, F_species_id).foreign_key # None

\* C5: the column of a field is nullable exactly if the field's declared
\* default is None; no default, a value or a default_factory give a column
\* that is not nullable, foreign key or not.
C5_NullableIffDefaultIsNone ==
    \A t \in Range(tables) : \A f \in Range(ModelOf(t).fields) :
        f.type # SENTINEL =>
            /\ f.name \in ColumnNames(t)
            /\ ColumnOf(t, f.name).nullable <=> (f.default = None)

\* C5 witness: FieldSample's table with a nullable foreign key (crop_id,
\* default None) and columns that are not nullable for a default value, a
\* required field and a factory field; and Species' table with a foreign
\* key that is not nullable (genus_id, required).
C5_WitnessEveryDefaultKind ==
    /\ \E t \in Range(tables) :
          /\ t.model = N_FieldSample
          /\ ColumnOf(t, F_crop_id).foreign_key # None
          /\ ColumnOf(t, F_crop_id).nullable
          /\ ~ColumnOf(t, F_crop_variety_id).nullable
          /\ ~ColumnOf(t, F_genus_id).nullable
          /\ ~ColumnOf(t, F_species_id).nullable
    /\ \E t \in Range(tables) :
          /\ t.model = N_Species
          /\ ColumnOf(t, F_genus_id).foreign_key # None
          /\ ~ColumnOf(t, F_genus_id).nullable

\* C6 as stated: every list[int] field of a synthesized model is no column
\* descriptor and no table column, and has a relationship whose
\* back-reference is the lowercased name of the owning model class.
C6_SentinelBackRefIsLoweredClassName ==
    \A t \in Range(tables) : Synthesized(t) =>
        \A f \in SentinelFields(ModelOf(t)) :
            /\ f.name \notin ColumnNames(t)
            /\ ~DictHas(DictGet(bauprint, t.model), f.name)
            /\ DictHas(PropsOf(t), f.name \o LIST_SUFFIX)
            /\ DictGet(PropsOf(t), f.name \o LIST_SUFFIX).back_populates
                 = str_lower(t.model)

\* C6 amended: every list[int] field of a synthesized model is no column
\* descriptor and no table column, and has the property <field>_list: the
\* relationship given as the field's default if there is one, otherwise a
\* relationship to snake_to_camel(field) whose back-reference is the owning
\* model's namespace key (its class name in snake case).
C6_SentinelIsRelationshipGivenOrInferred ==
    \A t \in Range(tables) : Synthesized(t) =>
        \A f \in SentinelFields(ModelOf(t)) :
            /\ f.name \notin ColumnNames(t)
            /\ ~DictHas(DictGet(bauprint, t.model), f.name)
            /\ DictHas(PropsOf(t), f.name \o LIST_SUFFIX)
            /\ DictGet(PropsOf(t), f.name \o LIST_SUFFIX)
                 = IF f.default \in {None, Val(""), Val("0")}
                   THEN relationship(snake_to_camel(f.name), camel_to_snake(t.model))
                   ELSE f.default

\* C6 witness: FieldSample synthesized, with the relationship it declares
\* on `genus` and the one inferred for `taxon`
C6_WitnessGivenAndInferred ==
    \E t \in Range(tables) :
        /\ t.model = N_FieldSample
        /\ Synthesized(t)
        /\ DictGet(PropsOf(t), F_genus \o LIST_SUFFIX) = relationship(N_Genus, F_owner)
        /\ DictGet(PropsOf(t), F_taxon \o LIST_SUFFIX).back_populates
             = <<"f","i","e","l","d","_","s","a","m","p","l","e">>

\* C7 as stated: a list[int] field that names no model of the shared
\* namespace gets no entry in the relationship set of its model.
C7_NoRelationshipForAbsentModel ==
    \A t \in Range(tables) : Synthesized(t) =>
        \A f \in SentinelFields(ModelOf(t)) :
            f.name \notin NamespaceKeysAt(Len(classes)) =>
                ~DictHas(PropsOf(t), f.name \o LIST_SUFFIX)

\* C7 amended: a list[int] field with a default gets its entry in the
\* relationship set whether or not it names a model of the shared
\* namespace: where it names none and no relationship is given, the entry
\* is a relationship to the class name made from the field name, and the
\* model's iteration of register_models raises nothing.
C7_RelationshipCreatedForAbsentModel ==
    \A t \in Range(tables) :
        (\A f \in SentinelFields(ModelOf(t)) : f.default # MISSING) =>
            /\ Synthesized(t)
            /\ \A f \in SentinelFields(ModelOf(t)) :
                  f.name \notin NamespaceKeysAt(Len(classes)) =>
                      /\ DictHas(PropsOf(t), f.name \o LIST_SUFFIX)
                      /\ f.default = None =>
                            DictGet(PropsOf(t), f.name \o LIST_SUFFIX).relationship
                              = snake_to_camel(f.name)

\* C7 witness: Crop is synthesized in a program that declares no
\* CropVariety, and startup has completed for its group
C7_WitnessAbsentModel ==
    \E t \in Range(tables) :
        /\ t.model = N_Crop
        /\ bp[t.group].pc = "done"
        /\ F_crop_variety \notin NamespaceKeysAt(Len(classes))
        /\ DictGet(PropsOf(t), F_crop_variety \o LIST_SUFFIX).relationship = N_CropVariety

\* The relationships registered so far: (group, model key, property key)
Constructed == {g \in GroupNames : bp[g].pc # "none"}
Relationships ==
    UNION {UNION {{<<g, bp[g].model_properties[i].key,
                     bp[g].model_properties[i].value[j].key>> :
                       j \in DOMAIN bp[g].model_properties[i].value} :
                  i \in DOMAIN bp[g].model_properties} :
           g \in Constructed}
RelationshipsOf(g) == {r \in Relationships : r[1] = g}
HasBauprint(m) == DictHas(bauprint, m.name)
NamespaceModels == UNION {Range(classes[i].models) : i \in DOMAIN classes}

\* C9 as stated: a step that creates a relationship, scalar or one-to-many,
\* is taken only when every model of the shared namespace, the models of
\* the other groups included, has its column descriptors.
C9_NoRelationshipBeforeAllDescriptors ==
    [][Relationships' # Relationships =>
          \A m \in NamespaceModels : HasBauprint(m)]_vars

\* C9 amended: a step that creates a relationship for a model of a group is
\* taken only when every model of that same group has its column
\* descriptors; the models of other groups may still be without.
C9_NoRelationshipBeforeGroupDescriptors ==
    [][\A g \in GroupNames :
          RelationshipsOf(g)' # RelationshipsOf(g) =>
              \A m \in Range(ClassOf(g).models) : HasBauprint(m)]_vars

\* C9 witness: a group of two models has its relationships while a model
\* of the other group, defined before, has no descriptors yet
C9_WitnessOtherGroupPending ==
    \E g \in GroupNames :
        /\ RelationshipsOf(g) # {}
        /\ Len(ClassOf(g).models) = 2
        /\ \E t \in Range(tables) : t.group = g /\ t.defined = 2
        /\ \E m \in NamespaceModels : ~HasBauprint(m)

\* The class names in the order defined_models gives, in the order of
\* declaration, and whether a list of names ascends
Enumerated(c) ==
    LET d == defined_models(c, interactive) IN list([i \in DOMAIN d |-> d[i].value.name])
Declared(c) == list([i \in DOMAIN c.models |-> c.models[i].name])
Ascending(names) ==
    \A i \in DOMAIN names : \A j \in DOMAIN names : i < j => StrLess(names[i], names[j])

\* C10 as stated: defined_models gives the models of every group in the
\* order of their declaration, whether the source can be had or not.
C10_DefinedModelsInSourceOrder ==
    \A i \in DOMAIN classes : Enumerated(classes[i]) = Declared(classes[i])

\* C10 amended: defined_models gives the models of a group in the order in
\* which the texts "class <Name>:" first occur in the source of the group,
\* which is the order of declaration where no such text precedes the
\* declarations; where the source cannot be had it gives them in the
\* ascending order of their names.
C10_SourceOrderOrAlphabetical ==
    \A i \in DOMAIN classes :
        LET c == classes[i]
            names == Enumerated(c)
        IN /\ Range(names) = Range(Declared(c))
           /\ Len(names) = Len(c.models)
           /\ interactive => Ascending(names)
           /\ ~interactive /\ c.doc = <<>> => names = Declared(c)
           /\ ~interactive =>
                 \A j \in DOMAIN names : \A k \in DOMAIN names :
                     j < k => index(cls_code(c, FALSE), names[j])
                                < index(cls_code(c, FALSE), names[k])

\* C10 witness: a group declares Species before Genus, its source can be
\* had, and its tables were made in that order
C10_WitnessNotAlphabetical ==
    /\ ~interactive
    /\ \E g \in GroupNames :
          /\ bp[g].pc = "done"
          /\ Declared(ClassOf(g)) = <<N_Species, N_Genus>>
          /\ \E i \in DOMAIN tables : \E j \in DOMAIN tables :
                i < j /\ tables[i].model = N_Species /\ tables[j].model = N_Genus

\* The names of the fields of model m that are not list[int], as declared
DeclaredColumns(m) ==
    LET fields == SelectSeq(m.fields, LAMBDA f : f.type # SENTINEL)
    IN list([i \in DOMAIN fields |-> fields[i].name])
\* The names of the columns of table t after `id`, without the forensics
\* columns that the table's group appends
StoredColumns(t) ==
    LET n == Len(t.columns) - (IF bp[t.group].forensics THEN Len(ForensicsColumns) ELSE 0)
    IN list([i \in 1..(n - 1) |-> t.columns[i + 1].name])
\* The form class registered for the model of table t, and its field names
\* before the last
FormOf(t) == DictGet(bp[t.group].forms, t.name)
HasForm(t) == bp[t.group].pc = "done" /\ DictHas(bp[t.group].forms, t.name)
FormFields(t) == LET keys == DictKeys(FormOf(t)) IN SubSeq(keys, 1, Len(keys) - 1)

\* C11: the table of a model has the column `id`, then one column for each
\* field that is not list[int], in the order of declaration, then the
\* forensics columns if the group tracks modifications; the model's form
\* has one field for each such model field in the same order, then submit.
C11_DeclarationOrderInColumnsAndForm ==
    \A t \in Range(tables) :
        /\ t.columns[1] = IdColumn
        /\ StoredColumns(t) = DeclaredColumns(ModelOf(t))
        /\ bp[t.group].forensics =>
              SubSeq(t.columns, Len(t.columns) - 1, Len(t.columns))
                = list([i \in DOMAIN ForensicsColumns |-> ForensicsColumns[i].value])
        /\ HasForm(t) =>
              /\ FormFields(t) = DeclaredColumns(ModelOf(t))
              /\ FormOf(t)[Len(FormOf(t))].key = SUBMIT

\* C11 witness: FieldSample, whose declaration is not in alphabetical order
\* and has list[int] fields, with its table (forensics columns last) and
\* its form
C11_WitnessTableAndForm ==
    \E t \in Range(tables) :
        /\ t.model = N_FieldSample
        /\ HasForm(t)
        /\ bp[t.group].forensics
        /\ Len(t.columns) = 8
        /\ FormFields(t) = <<F_genus_id, F_crop_id, F_crop_variety_id, F_taxon_id, F_species_id>>

\* The groups that declare a model under the namespace key x, among the
\* first n groups defined
DeclaringGroups(x, n) ==
    {classes[i].name : i \in {j \in 1..n :
        \E m \in Range(classes[j].models) : camel_to_snake(m.name) = x}}

\* C12 as stated: a field x_id declared int is a foreign key to x.id
\* whenever a model x is declared in any group of the program.
C12_ForeignKeyWheneverDeclaredAnywhere ==
    \A t \in Range(tables) : \A f \in Range(ModelOf(t).fields) :
        IntIdField(f) /\ DeclaringGroups(DropLast3(f.name), Len(classes)) # {} =>
            ColumnOf(t, f.name).foreign_key = ForeignKey(DropLast3(f.name))

\* C12 amended: a field x_id declared int is a foreign key to x.id, with
\* the relationship property x, whenever a model x is declared in a group
\* whose class statement ran before the instantiation of the field's own
\* group, whichever group that is and whether or not it was instantiated by
\* then; a model x declared only in groups defined later leaves the column
\* a plain integer column.
C12_ForeignKeyWheneverDeclaredBefore ==
    \A t \in Range(tables) : \A f \in Range(ModelOf(t).fields) :
        IntIdField(f) =>
            LET x == DropLast3(f.name)
            IN /\ DeclaringGroups(x, t.defined) # {} =>
                     /\ ColumnOf(t, f.name).foreign_key = ForeignKey(x)
                     /\ DictHas(PropsOf(t), x)
               /\ DeclaringGroups(x, t.defined) = {} =>
                     ColumnOf(t, f.name).foreign_key = None

\* C12 witness: Crop's species_id is a foreign key to a model that only the
\* other group declares, while that group has not been instantiated
C12_WitnessOtherGroupNotInstantiated ==
    \E t \in Range(tables) :
        /\ t.model = N_Crop
        /\ DeclaringGroups(<<"s","p","e","c","i","e","s">>, t.defined) = {N_Test}
        /\ t.group # N_Test
        /\ bp[N_Test].pc = "none"
        /\ ColumnOf(t, F_species_id).foreign_key = ForeignKey(<<"s","p","e","c","i","e","s">>)

\* The column descriptors (name -> Bauhaus) of the model of table t
DescriptorsOf(t) == DictGet(bauprint, t.model)

\* C13: the form field derived for a column descriptor has the validator
\* Optional if the descriptor's default is None and InputRequired
\* otherwise, and its initial value is the descriptor's default, or unset
\* (None) if the field has no default.
C13_ValidatorAndInitialValueFromDefault ==
    \A t \in Range(tables) : HasForm(t) =>
        \A i \in DOMAIN DescriptorsOf(t) :
            LET d == DescriptorsOf(t)[i].value
                field == DictGet(FormOf(t), d.name)
            IN /\ DictHas(FormOf(t), d.name)
               /\ field.validators = IF d.default = None THEN <<"Optional">>
                                     ELSE <<"InputRequired">>
               /\ field.default = IF d.default = MISSING THEN None ELSE d.default

\* C18: for every field of a model that is not list[int], whatever its
\* declared type, the form field is a SelectField exactly if the column
\* made for the field is a foreign-key column.
C18_SelectFieldIffForeignKeyColumn ==
    \A t \in Range(tables) : HasForm(t) =>
        \A f \in Range(ModelOf(t).fields) :
            f.type # SENTINEL =>
                (DictGet(FormOf(t), f.name).kind = "SelectField"
                    <=> ColumnOf(t, f.name).foreign_key # None)

\* C19: every name of _data_attributes is an attribute of the mapped model
\* class: a column of its table, a property of its relationship set, or a
\* name the class declares; and _data_headers has a header for each, in
\* the same order.  Fields x_id that are no foreign keys are included.
MappedAttributes(t) ==
    ColumnNames(t)
      \cup {PropsOf(t)[i].key : i \in DOMAIN PropsOf(t)}
      \cup {f.name : f \in {h \in Range(ModelOf(t).fields) : h.default # MISSING}}
AttrsOf(t) == DictGet(dmattrs, t.model)
C19_DataAttributesExistOnModel ==
    \A t \in Range(tables) : Synthesized(t) =>
        /\ Range(AttrsOf(t)._data_attributes) \subseteq MappedAttributes(t)
        /\ AttrsOf(t)._data_headers =
              list([i \in DOMAIN AttrsOf(t)._data_attributes |->
                       Header(AttrsOf(t)._data_attributes[i])])

(***************************************************************************)
(* Claims on the requests (SpecRun)                                        *)
(***************************************************************************)
\* a handler served a request in this step
Served == clock' = clock
\* the ids of the records of a model that are stored
StoredIds(records, model) == {rec.id : rec \in {r \in Range(records) : r.model = model}}

\* C14: whenever a handler builds a form, each of its foreign-key fields
\* offers exactly the records, stored at that moment, of the model that the
\* field's own prefix names, and not those of the model of another
\* foreign-key field of the same form.
C14_ChoicesAreStoredRecordsOfOwnModel ==
    [][Served =>
         \A i \in DOMAIN response'.choices :
            LET c == response'.choices[i]
            IN /\ c.model = snake_to_camel(DropLast3(c.field))
               /\ c.ids = StoredIds(session, c.model)]_vars

\* the form of Harvest was built while a Genus and no Species was stored
C14_WitnessTwoForeignKeysDiffer ==
    /\ Len(response.choices) = 2
    /\ response.choices[1].field = F_genus_id
    /\ response.choices[1].ids # {}
    /\ response.choices[2].field = F_species_id
    /\ response.choices[2].ids = {}

\* the file items of a record
FilesOf(rec) == {rec.files[i].value : i \in DOMAIN rec.files}

\* C16: a file that a request has stored keeps its bytes whatever other
\* requests store afterwards, as every conversion writes to a name of its
\* own.
C16_NoStoredFileOverwritten ==
    [][\A i \in DOMAIN disk : \E j \in DOMAIN disk' : disk'[j] = disk[i]]_vars

\* C17: a request changes nothing of what startup synthesised (the column
\* descriptors, the derived attribute lists, the tables, the models, forms
\* and properties of the groups, the routes), and each conversion runs on
\* an instance of its own: the file item it stores is the one written in
\* this request.
C17_RequestsLeaveSynthesisAndConvertAfresh ==
    [][Served =>
         /\ UNCHANGED <<bauprint, dmattrs, tables, bp, classes, app, bt>>
         /\ \A rec \in Range(session') \ Range(session) :
               \A item \in FilesOf(rec) :
                  /\ item.content_location.stamp = clock
                  /\ \E j \in DOMAIN disk' : disk'[j].path = item.content_location]_vars

\* a second upload was converted and stored, later than the first
C17_WitnessSecondConversionLater ==
    /\ Len(disk) = 2
    /\ \E rec \in Range(session) : \E item \in FilesOf(rec) :
          item.content_location.stamp = 1

\* C20: a create or an update that has committed ends in a redirect to an
\* endpoint that is registered.
C20_CommitEndsInResolvableRedirect ==
    response.handler \in {"create", "update"} => response.status # "BuildError"
====
